---- MODULE Spec2Model ----
(***************************************************************************)
(* Local-Translator: the word-resolution pipeline of the translate         *)
(* endpoint (src/main.py), the dictionary cascade and the remote           *)
(* translation client (src/utils.py) and the fallback dictionary           *)
(* (src/config.py).                                                        *)
(*                                                                         *)
(* A Python str is modelled as a sequence of one-character strings, so     *)
(* that strip, lower, split, substring search and the regular-expression   *)
(* filter are computed character by character, as the interpreter does.    *)
(* None is the one-element sequence <<"<None>">>, which is no str.         *)
(***************************************************************************)
EXTENDS Naturals, Integers, Sequences, FiniteSets, TLC

VARIABLES
    translation_df,      \* main.py module global: the loaded DataFrame
    translation_cache,   \* TranslationService.translation_cache
    translation_stats,   \* main.py module global translation_stats
    request_count,       \* main.py module global request_count
    pc,                  \* position of the request being handled
    req,                 \* locals of translate_word for the request in flight
    call,                \* locals of translate_to_swahili for the call in flight
    prev_call,           \* the last completed translate_to_swahili call
    response,            \* what translate_word returned (or raised) last
    fn_in,               \* arguments of a helper applied on its own
    fn_out               \* what that helper returned

vars == <<translation_df, translation_cache, translation_stats, request_count,
          pc, req, call, prev_call, response, fn_in, fn_out>>

-----------------------------------------------------------------------------
(* Python values *)

None == <<"<None>">>

\* bool(v) of an Optional[str]: None and "" are falsy
Truthy(v) == v # None /\ v # <<>>

\* The control characters that are whitespace and have no escape in a string: the
\* vertical tab (0x0B) and the four separators 0x1C to 0x1F, written as they are
VerticalTab == ""
Separators == {"", "", "", ""}

\* str.isspace() of one character, which str.strip(), str.split() and \s of re
\* share: the ASCII whitespace characters.  (Python counts \x85, \xa0 and the
\* Unicode spaces too; no word of the model holds one of them.)
Whitespace == {" ", "\t", "\n", "\r", "\f", VerticalTab} \cup Separators

UpperCase == {"A","B","C","D","E","F","G","H","I","J","K","L","M",
              "N","O","P","Q","R","S","T","U","V","W","X","Y","Z"}

LowerCase == {"a","b","c","d","e","f","g","h","i","j","k","l","m",
              "n","o","p","q","r","s","t","u","v","w","x","y","z"}

Digits == {"0","1","2","3","4","5","6","7","8","9"}

LowerOf == [c \in UpperCase |->
    CASE c = "A" -> "a" [] c = "B" -> "b" [] c = "C" -> "c" [] c = "D" -> "d"
      [] c = "E" -> "e" [] c = "F" -> "f" [] c = "G" -> "g" [] c = "H" -> "h"
      [] c = "I" -> "i" [] c = "J" -> "j" [] c = "K" -> "k" [] c = "L" -> "l"
      [] c = "M" -> "m" [] c = "N" -> "n" [] c = "O" -> "o" [] c = "P" -> "p"
      [] c = "Q" -> "q" [] c = "R" -> "r" [] c = "S" -> "s" [] c = "T" -> "t"
      [] c = "U" -> "u" [] c = "V" -> "v" [] c = "W" -> "w" [] c = "X" -> "x"
      [] c = "Y" -> "y" [] c = "Z" -> "z"]

\* str.lower()
Lower(s) == [i \in 1..Len(s) |-> IF s[i] \in UpperCase THEN LowerOf[s[i]] ELSE s[i]]

RECURSIVE LStrip(_)
LStrip(s) == IF s # <<>> /\ Head(s) \in Whitespace THEN LStrip(Tail(s)) ELSE s

RECURSIVE RStrip(_)
RStrip(s) ==
    IF s # <<>> /\ s[Len(s)] \in Whitespace THEN RStrip(SubSeq(s, 1, Len(s) - 1)) ELSE s

\* str.strip()
Strip(s) == RStrip(LStrip(s))

\* str.split(): the maximal runs of non-whitespace characters, in order
RECURSIVE SplitFrom(_, _, _)
SplitFrom(s, cur, acc) ==
    IF s = <<>> THEN (IF cur = <<>> THEN acc ELSE Append(acc, cur))
    ELSE IF Head(s) \in Whitespace
         THEN SplitFrom(Tail(s), <<>>, IF cur = <<>> THEN acc ELSE Append(acc, cur))
         ELSE SplitFrom(Tail(s), Append(cur, Head(s)), acc)

Split(s) == SplitFrom(s, <<>>, <<>>)

\* sep.join(parts)
RECURSIVE Join(_, _)
Join(sep, parts) ==
    IF parts = <<>> THEN <<>>
    ELSE IF Len(parts) = 1 THEN parts[1]
    ELSE parts[1] \o sep \o Join(sep, Tail(parts))

\* needle in haystack (str.__contains__, and str.contains(..., regex=False))
Contains(haystack, needle) ==
    \E i \in 0..(Len(haystack) - Len(needle)) :
        SubSeq(haystack, i + 1, i + Len(needle)) = needle

\* the character class [\w\s'-] of the regular expression in _clean_word
KeptByFilter(c) ==
    c \in LowerCase \cup UpperCase \cup Digits \cup {"_"} \cup Whitespace \cup {"'", "-"}

\* re.sub(r'[^\w\s\'-]', '', s)
ReSubPunctuation(s) == SelectSeq(s, KeptByFilter)

\* re.sub(r'\s+', ' ', s), as str.replace(r'\s+', ' ', regex=True) does
RECURSIVE CollapseWhitespace(_)
CollapseWhitespace(s) ==
    IF s = <<>> THEN <<>>
    ELSE IF Head(s) \in Whitespace
         THEN <<" ">> \o CollapseWhitespace(LStrip(s))
         ELSE <<Head(s)>> \o CollapseWhitespace(Tail(s))

-----------------------------------------------------------------------------
(* utils.py: WordMatcher.  A DataFrame is [columns: the set of its column  *)
(* names, rows: the sequence of its rows in load order]; a row is a record *)
(* with one str field per column.                                          *)

\* DataFrame.empty
Empty(df) == df.rows = <<>> \/ df.columns = {}

\* pd.DataFrame()
EmptyDataFrame == [columns |-> {}, rows |-> <<>>]

\* WordMatcher._clean_word
_clean_word(word) == ReSubPunctuation(Join(<<" ">>, Split(Lower(Strip(word)))))

\* WordMatcher._get_best_translation: matches is the sequence of matching rows
_get_best_translation(matches, target_language) ==
    LET valid_matches ==
            SelectSeq(matches, LAMBDA r : r[target_language] # None
                                          /\ Strip(r[target_language]) # <<>>)
    IN  IF matches = <<>> THEN None
        ELSE IF valid_matches # <<>>
             THEN LET translation == Strip(valid_matches[1][target_language])
                  IN  IF translation # <<>> THEN translation ELSE None
             ELSE None

\* WordMatcher._exact_match
_exact_match(word, target_language, df) ==
    LET matches == SelectSeq(df.rows, LAMBDA r : Strip(Lower(r.english)) = word)
    IN  _get_best_translation(matches, target_language)

\* WordMatcher._case_insensitive_match
_case_insensitive_match(word, target_language, df) ==
    LET matches == SelectSeq(df.rows,
            LAMBDA r : CollapseWhitespace(Strip(Lower(r.english))) = word)
    IN  _get_best_translation(matches, target_language)

\* DataFrame.drop_duplicates(): of the rows equal in every column the first is kept
RECURSIVE DropDuplicates(_)
DropDuplicates(rows) ==
    IF rows = <<>> THEN <<>>
    ELSE LET init == SubSeq(rows, 1, Len(rows) - 1)
             last == rows[Len(rows)]
         IN  IF \E i \in 1..Len(init) : init[i] = last
             THEN DropDuplicates(init)
             ELSE Append(DropDuplicates(init), last)

\* The orderings (permutations) of 1..n
IndexOrders(n) == {p \in [1..n -> 1..n] : \A i, j \in 1..n : i # j => p[i] # p[j]}

\* A sort that leaves the rows in the order it found them
SortValuesNot(rows) == {rows}

\* DataFrame.sort_values('english', key=lambda x: x.str.len()): the default sort
\* (kind='quicksort') is not stable, so the rows of equal length come out in an
\* order that depends on the build; every ordering by length is a possible outcome.
SortValuesByLen(rows) ==
    {[i \in 1..Len(rows) |-> rows[p[i]]] : p \in
        {q \in IndexOrders(Len(rows)) :
            \A i, j \in 1..Len(rows) :
                i < j => Len(rows[q[i]].english) <= Len(rows[q[j]].english)}}

\* WordMatcher._partial_match: the set of values the call can return (one value
\* unless two candidates of equal length carry different translations)
_partial_match(word, target_language, df) ==
    LET contains_matches ==
            SelectSeq(df.rows, LAMBDA r : Contains(Lower(r.english), word))
        contained_matches ==
            SelectSeq(df.rows, LAMBDA r : IF Lower(r.english) # <<>>
                                          THEN Contains(Lower(r.english), word)
                                          ELSE FALSE)
        all_matches == DropDuplicates(contains_matches \o contained_matches)
    IN  IF all_matches # <<>>
        THEN {_get_best_translation(sorted, target_language) :
                  sorted \in SortValuesByLen(all_matches)}
        ELSE {None}

\* set(s.split())
Tokens(s) == {Split(s)[i] : i \in 1..Len(Split(s))}

\* A loop body in which a later row of equal score replaces the best one
FuzzyStepLaterWins(best, row, word_parts, target_language) ==
    LET english_entry == Strip(Lower(row.english))
        entry_parts   == Tokens(english_entry)
        num           == Cardinality(word_parts \cap entry_parts)
        den           == Cardinality(word_parts \cup entry_parts)
        translation   == _get_best_translation(<<row>>, target_language)
    IN  IF english_entry = <<>> THEN best
        ELSE IF den > 0
                /\ num * best.den >= best.num * den
                /\ 2 * num >= den
                /\ Truthy(translation)
             THEN [match |-> translation, num |-> num, den |-> den]
             ELSE best

\* One iteration of the loop of _fuzzy_match over a row.  best_score is kept as the
\* fraction num/den that the float holds; fractions are compared by cross product.
FuzzyStep(best, row, word_parts, target_language) ==
    LET english_entry == Strip(Lower(row.english))
        entry_parts   == Tokens(english_entry)
        intersection  == word_parts \cap entry_parts
        union         == word_parts \cup entry_parts
        num           == Cardinality(intersection)
        den           == Cardinality(union)
        translation   == _get_best_translation(<<row>>, target_language)
    IN  IF english_entry = <<>> THEN best
        ELSE IF union # {}
                /\ num * best.den > best.num * den          \* similarity > best_score
                /\ 2 * num >= den                           \* similarity >= 0.5
                /\ Truthy(translation)
             THEN [match |-> translation, num |-> num, den |-> den]
             ELSE best

RECURSIVE FuzzyLoop(_, _, _, _)
FuzzyLoop(best, rows, word_parts, target_language) ==
    IF rows = <<>> THEN best
    ELSE FuzzyLoop(FuzzyStep(best, Head(rows), word_parts, target_language),
                   Tail(rows), word_parts, target_language)

\* WordMatcher._fuzzy_match
_fuzzy_match(word, target_language, df) ==
    FuzzyLoop([match |-> None, num |-> 0, den |-> 1], df.rows,
              Tokens(word), target_language).match

\* A cascade that tries the partial tier before the exact one
search_in_csv_partial_first(english_word, target_language, df) ==
    IF Empty(df) \/ target_language \notin df.columns THEN {None}
    ELSE
    LET english_clean == _clean_word(english_word)
        exact_match   == _exact_match(english_clean, target_language, df)
        case_match    == _case_insensitive_match(english_clean, target_language, df)
        fuzzy_match   == _fuzzy_match(english_clean, target_language, df)
    IN  {IF Truthy(partial_match) THEN partial_match
         ELSE IF Truthy(exact_match) THEN exact_match
         ELSE IF Truthy(case_match) THEN case_match
         ELSE IF Truthy(fuzzy_match) THEN fuzzy_match
         ELSE None :
             partial_match \in _partial_match(english_clean, target_language, df)}

\* WordMatcher.search_in_csv: the set of values the call can return
search_in_csv(english_word, target_language, df) ==
    IF Empty(df) \/ target_language \notin df.columns THEN {None}
    ELSE
    LET english_clean == _clean_word(english_word)
        exact_match   == _exact_match(english_clean, target_language, df)
        case_match    == _case_insensitive_match(english_clean, target_language, df)
        fuzzy_match   == _fuzzy_match(english_clean, target_language, df)
    IN  IF Truthy(exact_match) THEN {exact_match}
        ELSE IF Truthy(case_match) THEN {case_match}
        ELSE {IF Truthy(partial_match) THEN partial_match
              ELSE IF Truthy(fuzzy_match) THEN fuzzy_match
              ELSE None :
                  partial_match \in _partial_match(english_clean, target_language, df)}

-----------------------------------------------------------------------------
(* config.py: Config *)

\* Config.GOOGLE_TRANSLATE_MAX_RETRIES
GOOGLE_TRANSLATE_MAX_RETRIES == 3

\* Config.GOOGLE_TRANSLATE_RETRY_DELAY: the bounds of random.uniform.  A sleep is
\* recorded by its bounds <<low, high>>, not by the duration drawn.
GOOGLE_TRANSLATE_RETRY_DELAY == <<1, 3>>

\* Config.GOOGLE_TRANSLATE_RATE_LIMIT_DELAY
GOOGLE_TRANSLATE_RATE_LIMIT_DELAY == 5

\* time.sleep(Config.GOOGLE_TRANSLATE_RATE_LIMIT_DELAY), as a recorded sleep
RateLimitSleep == <<GOOGLE_TRANSLATE_RATE_LIMIT_DELAY, GOOGLE_TRANSLATE_RATE_LIMIT_DELAY>>

\* Config.SUPPORTED_LANGUAGES
SUPPORTED_LANGUAGES ==
    [l \in {"swahili", "haya", "sukuma"} |->
        CASE l = "swahili" -> <<"S", "w", "a", "h", "i", "l", "i">>
          [] l = "haya"    -> <<"H", "a", "y", "a">>
          [] l = "sukuma"  -> <<"S", "u", "k", "u", "m", "a">>]

\* Config.MESSAGES (the entries the translate endpoint uses)
MESSAGES ==
    [empty_word         |-> <<"P", "l", "e", "a", "s", "e", " ", "e", "n", "t", "e", "r", " ", "a", " ", "v", "a", "l", "i", "d", " ", "E", "n", "g", "l", "i", "s", "h", " ", "w", "o", "r", "d">>,
     network_error      |-> <<"N", "e", "t", "w", "o", "r", "k", " ", "t", "i", "m", "e", "o", "u", "t", " ", "-", " ", "p", "l", "e", "a", "s", "e", " ", "c", "h", "e", "c", "k", " ", "y", "o", "u", "r", " ", "i", "n", "t", "e", "r", "n", "e", "t", " ", "c", "o", "n", "n", "e", "c", "t", "i", "o", "n">>,
     rate_limit         |-> <<"R", "a", "t", "e", " ", "l", "i", "m", "i", "t", " ", "e", "x", "c", "e", "e", "d", "e", "d", " ", "-", " ", "p", "l", "e", "a", "s", "e", " ", "t", "r", "y", " ", "a", "g", "a", "i", "n", " ", "l", "a", "t", "e", "r">>,
     translation_failed |-> <<"T", "r", "a", "n", "s", "l", "a", "t", "i", "o", "n", " ", "f", "a", "i", "l", "e", "d", " ", "a", "f", "t", "e", "r", " ", "m", "u", "l", "t", "i", "p", "l", "e", " ", "a", "t", "t", "e", "m", "p", "t", "s">>]

\* A dict literal: the pairs key -> value, a later pair replacing an earlier one
RECURSIVE Dict(_)
Dict(pairs) ==
    IF pairs = <<>> THEN <<>>
    ELSE LET n == Len(pairs)
         IN  (pairs[n][1] :> pairs[n][2]) @@ Dict(SubSeq(pairs, 1, n - 1))

Fallback_swahili == Dict(<<
    <<<<"h", "e", "l", "l", "o">>, <<"h", "u", "j", "a", "m", "b", "o">>>>,
    <<<<"g", "o", "o", "d", "b", "y", "e">>, <<"k", "w", "a", "h", "e", "r", "i">>>>,
    <<<<"t", "h", "a", "n", "k", " ", "y", "o", "u">>, <<"a", "s", "a", "n", "t", "e">>>>,
    <<<<"p", "l", "e", "a", "s", "e">>, <<"t", "a", "f", "a", "d", "h", "a", "l", "i">>>>,
    <<<<"y", "e", "s">>, <<"n", "d", "i", "y", "o">>>>,
    <<<<"n", "o">>, <<"h", "a", "p", "a", "n", "a">>>>,
    <<<<"w", "a", "t", "e", "r">>, <<"m", "a", "j", "i">>>>,
    <<<<"f", "o", "o", "d">>, <<"c", "h", "a", "k", "u", "l", "a">>>>,
    <<<<"h", "o", "u", "s", "e">>, <<"n", "y", "u", "m", "b", "a">>>>,
    <<<<"f", "a", "m", "i", "l", "y">>, <<"f", "a", "m", "i", "l", "i", "a">>>>,
    <<<<"f", "r", "i", "e", "n", "d">>, <<"r", "a", "f", "i", "k", "i">>>>,
    <<<<"l", "o", "v", "e">>, <<"u", "p", "e", "n", "d", "o">>>>,
    <<<<"p", "e", "a", "c", "e">>, <<"a", "m", "a", "n", "i">>>>,
    <<<<"s", "c", "h", "o", "o", "l">>, <<"s", "h", "u", "l", "e">>>>,
    <<<<"b", "o", "o", "k">>, <<"k", "i", "t", "a", "b", "u">>>>,
    <<<<"t", "e", "a", "c", "h", "e", "r">>, <<"m", "w", "a", "l", "i", "m", "u">>>>,
    <<<<"s", "t", "u", "d", "e", "n", "t">>, <<"m", "w", "a", "n", "a", "f", "u", "n", "z", "i">>>>,
    <<<<"m", "o", "t", "h", "e", "r">>, <<"m", "a", "m", "a">>>>,
    <<<<"f", "a", "t", "h", "e", "r">>, <<"b", "a", "b", "a">>>>,
    <<<<"c", "h", "i", "l", "d">>, <<"m", "t", "o", "t", "o">>>>,
    <<<<"g", "o", "o", "d">>, <<"n", "z", "u", "r", "i">>>>,
    <<<<"b", "a", "d">>, <<"m", "b", "a", "y", "a">>>>,
    <<<<"b", "i", "g">>, <<"k", "u", "b", "w", "a">>>>,
    <<<<"s", "m", "a", "l", "l">>, <<"n", "d", "o", "g", "o">>>>
    >>)

Fallback_haya == Dict(<<
    <<<<"h", "e", "l", "l", "o">>, <<"o", "r", "i", "i", "r", "e", " ", "o", "t", "a">>>>,
    <<<<"w", "a", "t", "e", "r">>, <<"a", "m", "i", "z", "i">>>>,
    <<<<"f", "o", "o", "d">>, <<"e", "b", "y", "a", "k", "u", "l", "a">>>>,
    <<<<"h", "o", "u", "s", "e">>, <<"e", "n", "j", "u">>>>,
    <<<<"t", "h", "a", "n", "k", " ", "y", "o", "u">>, <<"w", "a", "a", "k", "e", "r", "a">>>>,
    <<<<"g", "o", "o", "d">>, <<"k", "i", "r", "u", "n", "g", "i">>>>,
    <<<<"m", "a", "n">>, <<"m", "u", "s", "h", "a", "i", "j", "a">>>>,
    <<<<"w", "o", "m", "a", "n">>, <<"m", "u", "k", "a", "z", "i">>>>,
    <<<<"c", "h", "i", "l", "d">>, <<"m", "w", "a", "n", "a">>>>,
    <<<<"b", "o", "o", "k">>, <<"e", "k", "i", "t", "a", "b", "u">>>>,
    <<<<"s", "c", "h", "o", "o", "l">>, <<"u", "m", "o", "s", "o", "m", "e", "l", "o">>>>,
    <<<<"s", "l", "e", "e", "p">>, <<"o", "k", "u", "n", "y", "a", "m", "a">>>>,
    <<<<"e", "a", "t">>, <<"o", "k", "u", "l", "y", "a">>>>,
    <<<<"w", "a", "l", "k">>, <<"i", "r", "u", "k", "a">>>>,
    <<<<"m", "o", "r", "n", "i", "n", "g">>, <<"b", "w", "a", "k", "y", "a">>>>,
    <<<<"o", "n", "e">>, <<"e", "m", "o">>>>,
    <<<<"t", "w", "o">>, <<"i", "b", "i", "l", "i">>>>,
    <<<<"t", "h", "r", "e", "e">>, <<"i", "s", "h", "a", "t", "u">>>>,
    <<<<"f", "o", "u", "r">>, <<"i", "n", "a">>>>,
    <<<<"f", "i", "v", "e">>, <<"i", "t", "a", "n", "u">>>>
    >>)

Fallback_sukuma == Dict(<<
    <<<<"h", "e", "l", "l", "o">>, <<"m", "w", "a", "n", "g", "a", "l", "u", "k", "a">>>>,
    <<<<"w", "o", "r", "l", "d">>, <<"w", "e", "l", "e", "l", "o">>>>,
    <<<<"f", "o", "o", "d">>, <<"s", "h", "i", "l", "e", "w", "a">>>>,
    <<<<"w", "a", "t", "e", "r">>, <<"m", "i", "n", "z", "e">>>>,
    <<<<"h", "o", "u", "s", "e">>, <<"n", "u", "m", "b", "a">>>>,
    <<<<"s", "c", "h", "o", "o", "l">>, <<"s", "h", "u", "l", "e">>>>,
    <<<<"f", "r", "i", "e", "n", "d">>, <<"n", "s", "u", "m", "b", "a">>>>,
    <<<<"m", "a", "n">>, <<"n", "g", "o", "s", "h", "a">>>>,
    <<<<"w", "o", "m", "a", "n">>, <<"n", "k", "i", "m", "a">>>>,
    <<<<"c", "h", "i", "l", "d">>, <<"m", "w", "a", "n", "a">>>>,
    <<<<"t", "o", "m", "o", "r", "r", "o", "w">>, <<"n", "t", "o", "n", "d", "o">>>>,
    <<<<"h", "o", "m", "e">>, <<"m", "u", "k", "a", "y", "a">>>>,
    <<<<"y", "e", "s">>, <<"g", "e", "k", "o">>>>,
    <<<<"s", "a", "l", "t">>, <<"m", "u", "n", "h", "u">>>>,
    <<<<"s", "h", "o", "p">>, <<"i", "d", "u", "k", "a">>>>,
    <<<<"m", "i", "l", "k">>, <<"m", "a", "b", "w", "h", "e", "l", "a">>>>,
    <<<<"t", "a", "l", "k">>, <<"g", "o", "y", "o", "m", "b", "a">>>>,
    <<<<"o", "n", "e">>, <<"e", "m", "o">>>>,
    <<<<"b", "u", "y">>, <<"g", "u", "l", "a">>>>,
    <<<<"s", "e", "l", "l">>, <<"g", "u", "z", "u">>>>
    >>)

\* Config.FALLBACK_TRANSLATIONS
FALLBACK_TRANSLATIONS ==
    [l \in {"swahili", "haya", "sukuma"} |->
        CASE l = "swahili" -> Fallback_swahili
          [] l = "haya"    -> Fallback_haya
          [] l = "sukuma"  -> Fallback_sukuma]

\* A lookup under the stripped word, its case kept
get_fallback_translation_case_kept(word, target_language) ==
    LET word_key == Strip(word)
    IN  IF target_language \in DOMAIN FALLBACK_TRANSLATIONS
        THEN IF word_key \in DOMAIN FALLBACK_TRANSLATIONS[target_language]
             THEN FALLBACK_TRANSLATIONS[target_language][word_key]
             ELSE None
        ELSE None

\* Config.get_fallback_translation
get_fallback_translation(word, target_language) ==
    LET word_lower == Strip(Lower(word))
    IN  IF target_language \in DOMAIN FALLBACK_TRANSLATIONS
        THEN IF word_lower \in DOMAIN FALLBACK_TRANSLATIONS[target_language]
             THEN FALLBACK_TRANSLATIONS[target_language][word_lower]
             ELSE None
        ELSE None

\* The characters of a language identifier (identifiers are kept as whole strings:
\* they are only compared, looked up and, once, spliced into a message)
ToChars(language) ==
    CASE language = "swahili" -> <<"s", "w", "a", "h", "i", "l", "i">>
      [] language = "haya"    -> <<"h", "a", "y", "a">>
      [] language = "sukuma"  -> <<"s", "u", "k", "u", "m", "a">>

-----------------------------------------------------------------------------
(* utils.py: TranslationService and TextProcessor *)

\* What one call of Translator.translate can do: return a result whose text is
\* payload, or raise an exception whose str() is payload.
Returned(text) == [kind |-> "text", payload |-> text]
Raised(msg) == [kind |-> "raise", payload |-> msg]

\* A cache keyed by the word as passed, its case kept
CacheKeyCaseKept(english_word) == <<"e", "n", "_", "t", "o", "_", "s", "w", "_">> \o english_word

\* translate_to_swahili: cache_key = f"en_to_sw_{english_word.lower()}"
CacheKey(english_word) == <<"e", "n", "_", "t", "o", "_", "s", "w", "_">> \o Lower(english_word)

\* A cache that is never read
CacheHitNever(cache_key, cache) == FALSE

\* translate_to_swahili: if cache_key in self.translation_cache
CacheHit(cache_key, cache) == cache_key \in DOMAIN cache

\* translate_to_swahili: any(keyword in error_msg for keyword in [...])
IsNetworkError(error_msg) ==
    \E keyword \in {<<"t", "i", "m", "e", "o", "u", "t">>, <<"h", "a", "n", "d", "s", "h", "a", "k", "e">>, <<"s", "s", "l">>, <<"c", "o", "n", "n", "e", "c", "t", "i", "o", "n">>} :
        Contains(error_msg, keyword)

\* translate_to_swahili: 'rate limit' in error_msg or '429' in error_msg
IsRateLimit(error_msg) ==
    Contains(error_msg, <<"r", "a", "t", "e", " ", "l", "i", "m", "i", "t">>) \/ Contains(error_msg, <<"4", "2", "9">>)

\* A last-attempt test that is off by one
IsLastAttemptEarly(attempt) == attempt = GOOGLE_TRANSLATE_MAX_RETRIES - 2

\* translate_to_swahili: attempt == Config.GOOGLE_TRANSLATE_MAX_RETRIES - 1
IsLastAttempt(attempt) == attempt = GOOGLE_TRANSLATE_MAX_RETRIES - 1

\* translate_to_swahili: if result and hasattr(result, 'text') and result.text
HasText(outcome) == outcome.kind = "text" /\ outcome.payload # <<>>

\* An except clause that takes every failure for a passing one and tries again
ExceptClauseRetryAll(attempt, msg) ==
    LET error_msg == Lower(msg)
    IN  IF IsLastAttempt(attempt)
        THEN [do |-> "raise",
              value |-> IF IsNetworkError(error_msg) THEN MESSAGES.network_error
                        ELSE IF IsRateLimit(error_msg) THEN MESSAGES.rate_limit
                        ELSE <<"T", "r", "a", "n", "s", "l", "a", "t", "i", "o", "n", " ", "s", "e", "r", "v", "i", "c", "e", " ", "e", "r", "r", "o", "r", ":", " ">> \o msg,
              sleeps |-> <<>>]
        ELSE [do |-> "continue", value |-> None,
              sleeps |-> IF ~IsNetworkError(error_msg) /\ IsRateLimit(error_msg)
                         THEN <<RateLimitSleep>> ELSE <<>>]

\* An except clause that tests the rate-limit keywords before the network ones
ExceptClauseRateFirst(attempt, msg) ==
    LET error_msg == Lower(msg)
    IN  IF IsRateLimit(error_msg)
        THEN IF IsLastAttempt(attempt)
             THEN [do |-> "raise", value |-> MESSAGES.rate_limit, sleeps |-> <<>>]
             ELSE [do |-> "continue", value |-> None,
                   sleeps |-> <<RateLimitSleep>>]
        ELSE IF IsNetworkError(error_msg)
        THEN IF IsLastAttempt(attempt)
             THEN [do |-> "raise", value |-> MESSAGES.network_error, sleeps |-> <<>>]
             ELSE [do |-> "continue", value |-> None, sleeps |-> <<>>]
        ELSE [do |-> "raise", value |-> <<"T", "r", "a", "n", "s", "l", "a", "t", "i", "o", "n", " ", "s", "e", "r", "v", "i", "c", "e", " ", "e", "r", "r", "o", "r", ":", " ">> \o msg,
              sleeps |-> <<>>]

\* An except clause that sleeps the cooldown on the last attempt too
ExceptClauseSleepsLast(attempt, msg) ==
    LET error_msg == Lower(msg)
    IN  IF IsNetworkError(error_msg)
        THEN IF IsLastAttempt(attempt)
             THEN [do |-> "raise", value |-> MESSAGES.network_error, sleeps |-> <<>>]
             ELSE [do |-> "continue", value |-> None, sleeps |-> <<>>]
        ELSE IF IsRateLimit(error_msg)
        THEN IF IsLastAttempt(attempt)
             THEN [do |-> "raise", value |-> MESSAGES.rate_limit,
                   sleeps |-> <<RateLimitSleep>>]
             ELSE [do |-> "continue", value |-> None,
                   sleeps |-> <<RateLimitSleep>>]
        ELSE [do |-> "raise", value |-> <<"T", "r", "a", "n", "s", "l", "a", "t", "i", "o", "n", " ", "s", "e", "r", "v", "i", "c", "e", " ", "e", "r", "r", "o", "r", ":", " ">> \o msg,
              sleeps |-> <<>>]

\* translate_to_swahili: the except clause, for the exception whose str() is msg,
\* raised in iteration attempt.  What the iteration does next: raise error, or
\* continue after the sleeps listed.
ExceptClause(attempt, msg) ==
    LET error_msg == Lower(msg)
    IN  IF IsNetworkError(error_msg)
        THEN IF IsLastAttempt(attempt)
             THEN [do |-> "raise", value |-> MESSAGES.network_error, sleeps |-> <<>>]
             ELSE [do |-> "continue", value |-> None, sleeps |-> <<>>]
        ELSE IF IsRateLimit(error_msg)
        THEN IF IsLastAttempt(attempt)
             THEN [do |-> "raise", value |-> MESSAGES.rate_limit, sleeps |-> <<>>]
             ELSE [do |-> "continue", value |-> None,
                   sleeps |-> <<RateLimitSleep>>]
        ELSE [do |-> "raise", value |-> <<"T", "r", "a", "n", "s", "l", "a", "t", "i", "o", "n", " ", "s", "e", "r", "v", "i", "c", "e", " ", "e", "r", "r", "o", "r", ":", " ">> \o msg,
              sleeps |-> <<>>]

\* A try body that writes the cache before it looks at the result
TryBodyCacheFirst(attempt, outcome) ==
    IF HasText(outcome)
    THEN [do |-> "return", value |-> Strip(outcome.payload), sleeps |-> <<>>,
          store |-> Strip(outcome.payload)]
    ELSE [store |-> IF outcome.kind = "text" THEN Strip(outcome.payload) ELSE None] @@
         ExceptClause(attempt, IF outcome.kind = "raise" THEN outcome.payload
                               ELSE <<"E", "m", "p", "t", "y", " ", "t", "r", "a", "n", "s", "l", "a", "t", "i", "o", "n", " ", "r", "e", "s", "u", "l", "t">>)

\* translate_to_swahili: the body of the try, given what the remote call did.
\* store is the translation that is written to the cache, None when none is.
TryBody(attempt, outcome) ==
    IF HasText(outcome)
    THEN [do |-> "return", value |-> Strip(outcome.payload), sleeps |-> <<>>,
          store |-> Strip(outcome.payload)]
    ELSE [store |-> None] @@
         ExceptClause(attempt, IF outcome.kind = "raise" THEN outcome.payload
                               ELSE <<"E", "m", "p", "t", "y", " ", "t", "r", "a", "n", "s", "l", "a", "t", "i", "o", "n", " ", "r", "e", "s", "u", "l", "t">>)

\* translate_to_swahili: the sleep that opens an iteration after the first
RetrySleep(attempt) == IF attempt > 0 THEN <<GOOGLE_TRANSLATE_RETRY_DELAY>> ELSE <<>>

\* TextProcessor.validate_input: <<is_valid, error_message>>
validate_input(text) ==
    IF text = <<>> \/ Strip(text) = <<>> THEN <<FALSE, MESSAGES.empty_word>>
    ELSE IF Len(Strip(text)) > 100
         THEN <<FALSE, <<"W", "o", "r", "d", " ", "i", "s", " ", "t", "o", "o", " ", "l", "o", "n", "g", " ", "(", "m", "a", "x", " ", "1", "0", "0", " ", "c", "h", "a", "r", "a", "c", "t", "e", "r", "s", ")">>>>
    ELSE IF \E i \in 1..Len(Strip(text)) :
                Strip(text)[i] \notin LowerCase \cup UpperCase \cup Whitespace \cup {"'", "-"}
         THEN <<FALSE, <<"W", "o", "r", "d", " ", "c", "o", "n", "t", "a", "i", "n", "s", " ", "i", "n", "v", "a", "l", "i", "d", " ", "c", "h", "a", "r", "a", "c", "t", "e", "r", "s">>>>
    ELSE <<TRUE, <<>>>>

-----------------------------------------------------------------------------
(* Bounds and inputs *)

\* Requests handled in one run of the server
MaxRequests == 2

\* Rows of a dictionary table given to the matcher
MaxRows == 2

\* Length of a word given to the normalizer
MaxCleanLen == 4

\* request.english_word of the requests (pydantic lets through 1..100 characters)
RequestWords ==
    {<<"c", "a", "t">>, <<"N", "o", " ">>, <<"z", "z">>, <<"Z", "z">>, <<"z", " ", "z">>, <<"z", " ", " ", "z">>, <<"z", "9">>, <<" ">>,
     <<"z", VerticalTab, "z">>}

\* request.target_language (pydantic lets through ^(swahili|haya|sukuma)$)
RequestLanguages == {"swahili", "haya", "sukuma"}

\* The DataFrame CSVLoader.load_translation_data delivers
LoadedTable ==
    [columns |-> {"english", "swahili", "haya", "sukuma"},
     rows |-> << [english |-> <<"c", "a", "t">>, swahili |-> <<"p", "a", "k", "a">>, haya |-> <<>>,
                  sukuma |-> <<>>],
                 [english |-> <<"c", "a", "t", "s">>, swahili |-> <<"p", "a", "k", "a", "-", "i", "s", "h">>, haya |-> <<"e", "n", "j", "a", "n", "g", "u">>,
                  sukuma |-> <<>>] >>]

\* main.py: translation_df after startup: the loaded table, or pd.DataFrame() when
\* the load raised
StartupTables == {LoadedTable, EmptyDataFrame}

\* What the remote service may answer to one call
RemoteOutcomes ==
    {Returned(<<"p", "a", "k", "a">>), Returned(<<" ", "p", "a", "k", "a", " ">>), Returned(<<" ">>), Returned(<<>>),
     Raised(<<"R", "e", "a", "d", " ", "T", "i", "m", "e", "o", "u", "t">>), Raised(<<"H", "T", "T", "P", " ", "4", "2", "9">>), Raised(<<"b", "o", "o", "m">>),
     Raised(<<"C", "o", "n", "n", "e", "c", "t", "i", "o", "n", " ", "4", "2", "9">>)}

-----------------------------------------------------------------------------
(* main.py: the translate endpoint *)

NotRun == <<"<not run>">>

NoCall == [status |-> "none", english_word |-> None, cache_key |-> None,
           attempt |-> 0, outcomes |-> <<>>, sleeps |-> <<>>,
           result |-> None, cache_hit |-> FALSE]

NoResponse == [status |-> 0, english |-> None, translation |-> None,
               target_language |-> "", language_name |-> None, method |-> "",
               success |-> FALSE, error |-> None, detail |-> None]

\* TranslationResponse(...)
TranslationResponse(english, translation, target_language, method, success, error) ==
    [status |-> 200, english |-> english, translation |-> translation,
     target_language |-> target_language,
     language_name |-> SUPPORTED_LANGUAGES[target_language],
     method |-> method, success |-> success, error |-> error, detail |-> None]

\* raise HTTPException(status_code=..., detail=...)
HTTPException(status_code, detail) ==
    [NoResponse EXCEPT !.status = status_code, !.detail = detail]

\* Statistics that count the successes only
CountedSuccessOnly(stats, outcome, method) ==
    LET s1 == IF outcome = "successful"
              THEN [stats EXCEPT !.successful_translations = @ + 1]
              ELSE stats
    IN  IF method = "" THEN s1
        ELSE [s1 EXCEPT !.methods_used[method] = @ + 1]

\* translation_stats after a request that ended with outcome ("successful" or
\* "failed") by method (a key of methods_used, or "" when none is counted)
Counted(stats, outcome, method) ==
    LET s1 == IF outcome = "successful"
              THEN [stats EXCEPT !.successful_translations = @ + 1]
              ELSE [stats EXCEPT !.failed_translations = @ + 1]
    IN  IF method = "" THEN s1
        ELSE [s1 EXCEPT !.methods_used[method] = @ + 1]

\* An endpoint that asks the remote service for every language
RemoteEligibleAny(target_language) == TRUE

\* translate_word: if target_language == "swahili"
RemoteEligible(target_language) == target_language = "swahili"

\* An endpoint that lets the exception of the remote call through to its last
\* handler, which answers 500
AfterRemotePropagates(english_word, target_language, how, value) ==
    IF how = "return"
    THEN [response |-> TranslationResponse(english_word, value, target_language,
                                            "google_translate", TRUE, None),
          outcome |-> "successful", method |-> "google_translate"]
    ELSE [response |-> HTTPException(500, <<"T", "r", "a", "n", "s", "l", "a", "t", "i", "o", "n", " ", "f", "a", "i", "l", "e", "d", ":", " ">> \o value),
          outcome |-> "failed", method |-> ""]

\* translate_word, lines 236-269: what the endpoint returns when
\* translate_to_swahili returned value, or raised the exception whose str() is value
AfterRemote(english_word, target_language, how, value) ==
    IF how = "return"
    THEN [response |-> TranslationResponse(english_word, value, target_language,
                                            "google_translate", TRUE, None),
          outcome |-> "successful", method |-> "google_translate"]
    ELSE [response |-> TranslationResponse(english_word, <<>>, target_language,
                                            "failed", FALSE, value),
          outcome |-> "failed", method |-> "not_found"]

\* An endpoint that skips the fallback dictionary
LocalAnswerCsvOnly(csv_translation, fallback_translation) ==
    IF Truthy(csv_translation) THEN [method |-> "csv_lookup", value |-> csv_translation]
    ELSE [method |-> "", value |-> None]

\* translate_word, lines 196-284, from the lookups to the point where it returns or
\* calls the remote service: the local source that answers, if one does
LocalAnswer(csv_translation, fallback_translation) ==
    IF Truthy(csv_translation) THEN [method |-> "csv_lookup", value |-> csv_translation]
    ELSE IF Truthy(fallback_translation)
         THEN [method |-> "fallback_dictionary", value |-> fallback_translation]
         ELSE [method |-> "", value |-> None]

Summary(c) == [status |-> c.status, english_word |-> c.english_word,
               result |-> c.result]

\* A request arrives and is handled up to its response, or up to the first call of
\* the remote service.
TranslateWord(word, lang) ==
    /\ pc \in {"idle", "done"}
    /\ request_count < MaxRequests
    /\ request_count' = request_count + 1
    /\ prev_call' = IF call.status \in {"returned", "raised"}
                    THEN Summary(call) ELSE prev_call
    /\ LET stats0 == [translation_stats EXCEPT !.total_requests = @ + 1]
           valid == validate_input(word)
           english_word == Strip(word)
           target_language == lang      \* .lower() of a value the pattern let through
       IN
       IF ~valid[1]
       THEN /\ translation_stats' = [stats0 EXCEPT !.failed_translations = @ + 1]
            /\ response' = HTTPException(400, valid[2])
            /\ req' = [english_word |-> word, target_language |-> target_language,
                       csv_translation |-> NotRun, fallback_translation |-> NotRun]
            /\ call' = NoCall
            /\ pc' = "done"
            /\ UNCHANGED translation_cache
       ELSE
       \E csv_translation \in search_in_csv(english_word, target_language, translation_df) :
       LET fallback_translation ==
               IF Truthy(csv_translation) THEN NotRun
               ELSE get_fallback_translation(english_word, target_language)
           local == LocalAnswer(csv_translation,
                                IF fallback_translation = NotRun THEN None
                                ELSE fallback_translation)
           cache_key == CacheKey(english_word)
       IN
       /\ req' = [english_word |-> english_word, target_language |-> target_language,
                  csv_translation |-> csv_translation,
                  fallback_translation |-> fallback_translation]
       /\ UNCHANGED translation_cache
       /\ IF local.method # ""
          THEN /\ response' = TranslationResponse(english_word, local.value,
                                  target_language, local.method, TRUE, None)
               /\ translation_stats' = Counted(stats0, "successful", local.method)
               /\ call' = NoCall
               /\ pc' = "done"
          ELSE IF RemoteEligible(target_language)
          THEN IF CacheHit(cache_key, translation_cache)
               THEN LET after == AfterRemote(english_word, target_language, "return",
                                             translation_cache[cache_key])
                    IN  /\ response' = after.response
                        /\ translation_stats' = Counted(stats0, after.outcome, after.method)
                        /\ call' = [NoCall EXCEPT !.status = "returned",
                                        !.english_word = english_word,
                                        !.cache_key = cache_key,
                                        !.result = translation_cache[cache_key],
                                        !.cache_hit = TRUE]
                        /\ pc' = "done"
               ELSE /\ response' = NoResponse
                    /\ translation_stats' = stats0
                    /\ call' = [NoCall EXCEPT !.status = "running",
                                    !.english_word = english_word,
                                    !.cache_key = cache_key]
                    /\ pc' = "attempt"
          ELSE /\ response' = TranslationResponse(english_word, <<>>, target_language,
                                  "not_found", FALSE,
                                  <<"N", "o", " ">> \o ToChars(target_language)
                                      \o <<" ", "t", "r", "a", "n", "s", "l", "a", "t", "i", "o", "n", " ", "f", "o", "u", "n", "d", " ", "f", "o", "r", " ", "'">>
                                      \o english_word \o <<"'">>)
               /\ translation_stats' = Counted(stats0, "failed", "not_found")
               /\ call' = NoCall
               /\ pc' = "done"
    /\ UNCHANGED <<translation_df, fn_in, fn_out>>

\* One iteration of the loop of translate_to_swahili: the sleep that opens it, the
\* remote call, and what the try and except clauses make of its outcome.  When the
\* call returns or raises, translate_word builds its response.
RemoteAttempt(outcome) ==
    /\ pc = "attempt"
    /\ LET attempt == call.attempt
           step == TryBody(attempt, outcome)
           log == [call EXCEPT !.outcomes = Append(@, outcome),
                               !.sleeps = @ \o RetrySleep(attempt) \o step.sleeps]
       IN
       /\ translation_cache' =
              IF step.store # None
              THEN (call.cache_key :> step.store) @@ translation_cache
              ELSE translation_cache
       /\ IF step.do = "continue" /\ attempt + 1 < GOOGLE_TRANSLATE_MAX_RETRIES
          THEN /\ call' = [log EXCEPT !.attempt = attempt + 1]
               /\ pc' = "attempt"
               /\ UNCHANGED <<response, translation_stats>>
          ELSE LET how == IF step.do = "return" THEN "return" ELSE "raise"
                   \* the loop ran out: raise Exception(MESSAGES["translation_failed"])
                   value == IF step.do = "continue" THEN MESSAGES.translation_failed
                            ELSE step.value
                   after == AfterRemote(call.english_word, req.target_language,
                                        how, value)
               IN  /\ call' = [log EXCEPT !.status = IF how = "return" THEN "returned"
                                                      ELSE "raised",
                                          !.result = value]
                   /\ response' = after.response
                   /\ translation_stats' =
                          Counted(translation_stats, after.outcome, after.method)
                   /\ pc' = "done"
    /\ UNCHANGED <<translation_df, request_count, req, prev_call, fn_in, fn_out>>

NoStats == [total_requests |-> 0, successful_translations |-> 0,
            failed_translations |-> 0,
            methods_used |-> [csv_lookup |-> 0, google_translate |-> 0,
                              fallback_dictionary |-> 0, not_found |-> 0]]

NoArgs == [fn |-> "none", word |-> None, target_language |-> ""]
NoValue == [fn |-> "none", pass |-> 0, arg |-> None, value |-> None]

Init ==
    /\ translation_df \in StartupTables
    /\ translation_cache = <<>>
    /\ translation_stats = NoStats
    /\ request_count = 0
    /\ pc = "idle"
    /\ req = [english_word |-> None, target_language |-> "",
              csv_translation |-> NotRun, fallback_translation |-> NotRun]
    /\ call = NoCall
    /\ prev_call = Summary(NoCall)
    /\ response = NoResponse
    /\ fn_in = NoArgs
    /\ fn_out = NoValue

Next ==
    \/ \E word \in RequestWords, lang \in RequestLanguages : TranslateWord(word, lang)
    \/ \E outcome \in RemoteOutcomes : RemoteAttempt(outcome)

Spec == Init /\ [][Next]_vars

-----------------------------------------------------------------------------
(* The normalizer and the tiers of the cascade, applied on their own *)

\* The strings of at most n characters over alphabet
RECURSIVE StringsUpTo(_, _)
StringsUpTo(alphabet, n) ==
    IF n = 0 THEN {<<>>}
    ELSE LET shorter == StringsUpTo(alphabet, n - 1)
         IN  shorter \cup {Append(s, c) : s \in shorter, c \in alphabet}

\* Characters of the words given to the normalizer: a letter of each case, three
\* whitespace characters, a punctuation character the filter removes and one it keeps
CleanAlphabet == {"a", "B", " ", "\f", VerticalTab, ".", "-"}

CleanWords == StringsUpTo(CleanAlphabet, MaxCleanLen)

\* The base state of the server, which the helpers neither read nor change
ServerIdle ==
    /\ translation_cache = <<>>
    /\ translation_stats = NoStats
    /\ request_count = 0
    /\ pc = "idle"
    /\ req = [english_word |-> None, target_language |-> "",
              csv_translation |-> NotRun, fallback_translation |-> NotRun]
    /\ call = NoCall
    /\ prev_call = Summary(NoCall)
    /\ response = NoResponse

InitClean ==
    /\ ServerIdle
    /\ translation_df = EmptyDataFrame
    /\ fn_in \in {[NoArgs EXCEPT !.fn = "_clean_word", !.word = w] : w \in CleanWords}
    /\ fn_out = NoValue

\* cleaned = WordMatcher._clean_word(word)
CleanOnce ==
    /\ fn_out.pass = 0
    /\ fn_out' = [fn |-> "_clean_word", pass |-> 1, arg |-> fn_in.word,
                  value |-> _clean_word(fn_in.word)]
    /\ UNCHANGED <<translation_df, translation_cache, translation_stats, request_count,
                   pc, req, call, prev_call, response, fn_in>>

\* WordMatcher._clean_word(cleaned)
CleanAgain ==
    /\ fn_out.pass = 1
    /\ fn_out' = [fn |-> "_clean_word", pass |-> 2, arg |-> fn_out.value,
                  value |-> _clean_word(fn_out.value)]
    /\ UNCHANGED <<translation_df, translation_cache, translation_stats, request_count,
                   pc, req, call, prev_call, response, fn_in>>

NextClean == CleanOnce \/ CleanAgain

SpecClean == InitClean /\ [][NextClean]_vars

\* The source words of the rows of the tables given to the matcher, as
\* CSVLoader._clean_dataframe leaves them: stripped, whitespace collapsed, not empty,
\* case kept
MatchEntries == {<<"a">>, <<"b">>, <<"a", "b">>, <<"a", " ", "b">>, <<"b", " ", "a">>, <<"A", " ", "b">>}

\* The cells of the target-language column: blank, or a translation
MatchTranslations == {<<>>, <<"x">>, <<"y">>}

\* Column haya is blank in every row, column sukuma is missing from the table
MatchRows ==
    {[english |-> e, swahili |-> t, haya |-> <<>>] :
        e \in MatchEntries, t \in MatchTranslations}

RECURSIVE SeqsUpTo(_, _)
SeqsUpTo(S, n) ==
    IF n = 0 THEN {<<>>}
    ELSE LET shorter == SeqsUpTo(S, n - 1)
         IN  shorter \cup {Append(s, x) : s \in shorter, x \in S}

MatchTables ==
    {[columns |-> {"english", "swahili", "haya"}, rows |-> rows] :
        rows \in SeqsUpTo(MatchRows, MaxRows)}

\* The words looked up
MatchQueries ==
    {<<"a">>, <<" ", "A", " ">>, <<"b">>, <<"a", "b">>, <<"a", " ", "b">>, <<"a", " ", " ", "B">>, <<"b", " ", "a">>, <<"a", ".">>, <<"c">>, <<>>,
     <<"a", "\f", "b">>, <<"a", "\f", VerticalTab, "b">>}

InitMatch ==
    /\ ServerIdle
    /\ translation_df \in MatchTables
    /\ fn_in \in {[fn |-> "WordMatcher", word |-> w, target_language |-> l] :
                      w \in MatchQueries, l \in RequestLanguages}
    /\ fn_out = NoValue

Returns(fn, arg, value) ==
    /\ fn_out.pass = 0
    /\ fn_out' = [fn |-> fn, pass |-> 1, arg |-> arg, value |-> value]
    /\ UNCHANGED <<translation_df, translation_cache, translation_stats, request_count,
                   pc, req, call, prev_call, response, fn_in>>

\* WordMatcher.search_in_csv(word, target_language, translation_df)
CallSearch ==
    \E value \in search_in_csv(fn_in.word, fn_in.target_language, translation_df) :
        Returns("search_in_csv", fn_in.word, value)

\* The tiers are called as search_in_csv calls them: on a table that is not empty
\* and has the column, with the cleaned word
TierCallable == ~Empty(translation_df) /\ fn_in.target_language \in translation_df.columns

\* WordMatcher._exact_match(english_clean, target_language, df)
CallExact ==
    /\ TierCallable
    /\ Returns("_exact_match", _clean_word(fn_in.word),
               _exact_match(_clean_word(fn_in.word), fn_in.target_language,
                            translation_df))

\* WordMatcher._partial_match(english_clean, target_language, df)
CallPartial ==
    /\ TierCallable
    /\ \E value \in _partial_match(_clean_word(fn_in.word), fn_in.target_language,
                                   translation_df) :
           Returns("_partial_match", _clean_word(fn_in.word), value)

\* WordMatcher._fuzzy_match(english_clean, target_language, df)
CallFuzzy ==
    /\ TierCallable
    /\ Returns("_fuzzy_match", _clean_word(fn_in.word),
               _fuzzy_match(_clean_word(fn_in.word), fn_in.target_language,
                            translation_df))

NextMatch == CallSearch \/ CallExact \/ CallPartial \/ CallFuzzy

SpecMatch == InitMatch /\ [][NextMatch]_vars

-----------------------------------------------------------------------------
(* The fallback dictionary, looked up for two words in turn *)

\* The words looked up: spellings of entries of the dictionary that differ in
\* case, in surrounding whitespace and in internal whitespace, and a word that is
\* no entry
FallbackWords ==
    {<<"t", "h", "a", "n", "k", " ", "y", "o", "u">>, <<"T", "h", "a", "n", "k", " ", "y", "o", "u">>, <<" ", "t", "h", "a", "n", "k", " ", "y", "o", "u", " ">>, <<"t", "h", "a", "n", "k", " ", " ", " ", "y", "o", "u">>, <<"T", "H", "A", "N", "K", " ", " ", "Y", "O", "U">>,
     <<"h", "e", "l", "l", "o">>, <<"H", "e", "l", "l", "o", " ">>, <<"h", "e", "l", " ", "l", "o">>, <<"z", "z">>}

InitFallback ==
    /\ ServerIdle
    /\ translation_df = EmptyDataFrame
    /\ fn_in \in {[fn |-> "get_fallback_translation", word |-> <<w1, w2>>,
                   target_language |-> l] :
                      w1 \in FallbackWords, w2 \in FallbackWords, l \in RequestLanguages}
    /\ fn_out = NoValue

\* Config.get_fallback_translation(w1, target_language)
LookupFirst ==
    /\ fn_out.pass = 0
    /\ fn_out' = [fn |-> "get_fallback_translation", pass |-> 1, arg |-> fn_in.word[1],
                  value |-> <<get_fallback_translation(fn_in.word[1],
                                                       fn_in.target_language)>>]
    /\ UNCHANGED <<translation_df, translation_cache, translation_stats, request_count,
                   pc, req, call, prev_call, response, fn_in>>

\* Config.get_fallback_translation(w2, target_language)
LookupSecond ==
    /\ fn_out.pass = 1
    /\ fn_out' = [fn |-> "get_fallback_translation", pass |-> 2, arg |-> fn_in.word[2],
                  value |-> Append(fn_out.value,
                                   get_fallback_translation(fn_in.word[2],
                                                            fn_in.target_language))]
    /\ UNCHANGED <<translation_df, translation_cache, translation_stats, request_count,
                   pc, req, call, prev_call, response, fn_in>>

NextFallback == LookupFirst \/ LookupSecond

SpecFallback == InitFallback /\ [][NextFallback]_vars

-----------------------------------------------------------------------------
(* The endpoint in front of a remote service that is a function of its text *)

\* What the remote service answers for text: the same for the same text, and
\* different for texts that differ, in case only too
FixedService(text) == Returned(<<"s", "w", ":">> \o text)

\* One iteration of the loop of translate_to_swahili, the remote call being
\* self.translator.translate(english_word, src='en', dest='sw')
RemoteAttemptFixed == RemoteAttempt(FixedService(call.english_word))

NextFixed ==
    \/ \E word \in RequestWords, lang \in RequestLanguages : TranslateWord(word, lang)
    \/ RemoteAttemptFixed

SpecFixed == Init /\ [][NextFixed]_vars

-----------------------------------------------------------------------------
(* Properties of the translate endpoint and of the remote client (Spec) *)

\* A lookup that ran and produced a usable value
Yielded(v) == v # NotRun /\ Truthy(v)

\* The remote client was called in the request in flight
ClientCalled == call.status # "none"

\* C1: the remote client is called only after search_in_csv and then
\* get_fallback_translation both ran and returned no value, and only for swahili;
\* when the cascade or the fallback yields a value, that value is the response and
\* the remote client is not called.
C1_LocalBeforeRemote ==
    /\ ClientCalled =>
          /\ req.csv_translation # NotRun /\ ~Truthy(req.csv_translation)
          /\ req.fallback_translation # NotRun /\ ~Truthy(req.fallback_translation)
          /\ req.target_language = "swahili"
    /\ Yielded(req.csv_translation) =>
          /\ ~ClientCalled
          /\ req.fallback_translation = NotRun
          /\ response.translation = req.csv_translation
          /\ response.method = "csv_lookup" /\ response.success
    /\ Yielded(req.fallback_translation) =>
          /\ ~ClientCalled
          /\ response.translation = req.fallback_translation
          /\ response.method = "fallback_dictionary" /\ response.success

\* A remote attempt was made after both local lookups ran and returned None
C1_Witness ==
    /\ Len(call.outcomes) >= 1
    /\ req.csv_translation = None
    /\ req.fallback_translation = None

\* Every remote call of the client call in flight raised an error whose message
\* holds one of the transient-network keywords
AllTransient(outcomes) ==
    \A i \in 1..Len(outcomes) :
        /\ outcomes[i].kind = "raise"
        /\ \E keyword \in {<<"t", "i", "m", "e", "o", "u", "t">>, <<"h", "a", "n", "d", "s", "h", "a", "k", "e">>, <<"s", "s", "l">>, <<"c", "o", "n", "n", "e", "c", "t", "i", "o", "n">>} :
               Contains(Lower(outcomes[i].payload), keyword)

\* C2: when every remote call raises a transient-network error, translate_to_swahili
\* makes exactly GOOGLE_TRANSLATE_MAX_RETRIES remote calls and then raises the
\* network error, on the last of them.
C2_TransientRetries ==
    (ClientCalled /\ ~call.cache_hit /\ AllTransient(call.outcomes)) =>
        /\ Len(call.outcomes) <= GOOGLE_TRANSLATE_MAX_RETRIES
        /\ call.status = "running" => Len(call.outcomes) < GOOGLE_TRANSLATE_MAX_RETRIES
        /\ call.status # "running" =>
              /\ Len(call.outcomes) = GOOGLE_TRANSLATE_MAX_RETRIES
              /\ call.status = "raised"
              /\ call.result = MESSAGES.network_error
              /\ response.error = MESSAGES.network_error

\* A call ended after the remote service timed out on each of its attempts
C2_Witness ==
    /\ call.status = "raised"
    /\ Len(call.outcomes) = GOOGLE_TRANSLATE_MAX_RETRIES
    /\ AllTransient(call.outcomes)

\* The call in flight follows a completed call that returned a value
FollowsSuccess == ClientCalled /\ prev_call.status = "returned"

\* The call in flight made no remote call and, once over, returned what the call
\* before it returned
ServedFromCache ==
    /\ Len(call.outcomes) = 0
    /\ call.status = "returned"
    /\ call.result = prev_call.result

\* C3, as claimed: of two consecutive calls of translate_to_swahili whose words have
\* the same normalized form (_clean_word), the second, if the first succeeded,
\* returns the cached value without a remote call.
C3_SameNormalizedFormHitsCache ==
    (FollowsSuccess
        /\ _clean_word(call.english_word) = _clean_word(prev_call.english_word))
    => ServedFromCache

\* C3, amended: of two consecutive calls of translate_to_swahili whose words have the
\* same lower-cased form (word.lower(), whitespace and punctuation kept), the
\* second, if the first succeeded, returns the cached value without a remote call.
C3_SameLowerCasedFormHitsCache ==
    (FollowsSuccess /\ Lower(call.english_word) = Lower(prev_call.english_word))
    => ServedFromCache

\* A call was served from the cache for a word that differs in case from the word
\* whose translation was cached
C3_Witness ==
    /\ FollowsSuccess
    /\ call.cache_hit
    /\ call.english_word # prev_call.english_word
    /\ Lower(call.english_word) = Lower(prev_call.english_word)

\* C4: a step changes the cache only if it is the step in which translate_to_swahili
\* returns a translation, and then it adds that translation under the call's key;
\* so a call that ends by raising, after any number of attempts, leaves the cache as
\* it found it.
C4_CacheChangedOnSuccessOnly ==
    [][translation_cache' # translation_cache =>
          /\ pc = "attempt"
          /\ call'.status = "returned"
          /\ translation_cache' = (call.cache_key :> call'.result) @@ translation_cache
      ]_vars

\* A call ended by raising after more than one remote call, with a translation of
\* an earlier call in the cache
C4_Witness ==
    /\ call.status = "raised"
    /\ Len(call.outcomes) > 1
    /\ translation_cache # <<>>

\* C5, as claimed: translate_to_swahili never returns, and the cache never holds, a
\* string that is empty after trimming.
C5_NoBlankSuccess ==
    /\ call.status = "returned" => Strip(call.result) # <<>>
    /\ \A k \in DOMAIN translation_cache : Strip(translation_cache[k]) # <<>>
    /\ (response.status = 200 /\ response.success) => Strip(response.translation) # <<>>

-----------------------------------------------------------------------------
(* Properties of the normalizer (SpecClean) *)

\* C6, as claimed: _clean_word(_clean_word(x)) = _clean_word(x) for every x.
C6_CleanWordIdempotent ==
    (fn_out.fn = "_clean_word" /\ fn_out.pass = 2) => fn_out.value = fn_out.arg

-----------------------------------------------------------------------------
(* Properties of the cascade (SpecMatch) *)

Query == _clean_word(fn_in.word)
Lang == fn_in.target_language
Rows == translation_df.rows

\* Row i has a translation for the target language that is not blank
HasTranslation(i) ==
    /\ Lang \in translation_df.columns
    /\ Rows[i][Lang] # None
    /\ Strip(Rows[i][Lang]) # <<>>

TranslationOf(i) == Strip(Rows[i][Lang])

\* The source word of row i: the english cell as the tiers read it, lower-cased and
\* stripped (the loader strips the cells and keeps their case; the tiers lower-case
\* them each time they match)
SourceWord(i) == Strip(Lower(Rows[i].english))

\* The rows whose source word is the normalized query and that have a translation
ExactRows == {i \in 1..Len(Rows) : SourceWord(i) = Query /\ HasTranslation(i)}

\* The least element of a set of row numbers that is not empty
First(I) == CHOOSE i \in I : \A j \in I : i <= j

\* C7: search_in_csv returns the result of the first of the tiers exact,
\* case-insensitive, partial, fuzzy that produces a translation; whenever a row's
\* source word equals the normalized query and has a translation, it returns the
\* translation of the first such row, whatever the partial and fuzzy tiers match.
C7_TiersInOrder ==
    fn_out.fn = "search_in_csv" =>
        /\ ExactRows # {} => fn_out.value = TranslationOf(First(ExactRows))
        /\ TierCallable =>
              LET exact == _exact_match(Query, Lang, translation_df)
                  case == _case_insensitive_match(Query, Lang, translation_df)
                  fuzzy == _fuzzy_match(Query, Lang, translation_df)
              IN  IF Truthy(exact) THEN fn_out.value = exact
                  ELSE IF Truthy(case) THEN fn_out.value = case
                  ELSE \E partial \in _partial_match(Query, Lang, translation_df) :
                          IF Truthy(partial) THEN fn_out.value = partial
                          ELSE IF Truthy(fuzzy) THEN fn_out.value = fuzzy
                          ELSE fn_out.value = None
        /\ ~TierCallable => fn_out.value = None

\* search_in_csv returned the translation of the second row, an exact match, though
\* the first row, which holds the query as a substring, has another translation
C7_Witness ==
    /\ fn_out.fn = "search_in_csv"
    /\ Len(Rows) = 2
    /\ ExactRows = {2}
    /\ HasTranslation(1)
    /\ Contains(SourceWord(1), Query)
    /\ TranslationOf(1) # TranslationOf(2)
    /\ fn_out.value = TranslationOf(2)

\* C8, as claimed: the candidates of the partial tier are the rows whose normalized
\* source word contains the normalized query together with the rows whose normalized
\* source word is a substring of it; so when some row of either kind has a
\* translation, the tier returns the translation of one of them.
C8_PartialBothDirections ==
    fn_out.fn = "_partial_match" =>
        LET candidates ==
                {i \in 1..Len(Rows) :
                    /\ HasTranslation(i)
                    /\ \/ Contains(SourceWord(i), Query)
                       \/ Contains(Query, SourceWord(i))}
        IN  candidates # {} => \E i \in candidates : fn_out.value = TranslationOf(i)

\* The rows the partial tier collects (their source word contains the query) that
\* have a translation
PartialCandidates ==
    {i \in 1..Len(Rows) : HasTranslation(i) /\ Contains(SourceWord(i), Query)}

\* C9: the partial tier returns the translation of a candidate with a translation
\* whose source word is of minimal length among the candidates with a translation
\* (and None when no candidate has one).
C9_PartialShortestWins ==
    fn_out.fn = "_partial_match" =>
        IF PartialCandidates = {} THEN fn_out.value = None
        ELSE \E i \in PartialCandidates :
                /\ fn_out.value = TranslationOf(i)
                /\ \A j \in PartialCandidates :
                       Len(SourceWord(i)) <= Len(SourceWord(j))

\* The partial tier returned the translation of the second row, the shorter of two
\* candidates with different translations
C9_Witness ==
    /\ fn_out.fn = "_partial_match"
    /\ PartialCandidates = {1, 2}
    /\ Len(SourceWord(2)) < Len(SourceWord(1))
    /\ TranslationOf(1) # TranslationOf(2)
    /\ fn_out.value = TranslationOf(2)

\* Token-set Jaccard similarity of row i to the query, as the pair <<|intersection|,
\* |union|>>
Jaccard(i) ==
    LET a == {Split(Query)[k] : k \in 1..Len(Split(Query))}
        e == Split(SourceWord(i))
        b == {e[k] : k \in 1..Len(e)}
    IN  <<Cardinality(a \cap b), Cardinality(a \cup b)>>

\* The rows that score at least 0.50 and have a translation
FuzzyRows ==
    {i \in 1..Len(Rows) :
        /\ HasTranslation(i)
        /\ Jaccard(i)[2] > 0
        /\ 2 * Jaccard(i)[1] >= Jaccard(i)[2]}

\* Row i scores at least as high as row j
ScoresAtLeast(i, j) == Jaccard(i)[1] * Jaccard(j)[2] >= Jaccard(j)[1] * Jaccard(i)[2]

\* C10: the fuzzy tier returns the translation of the row of greatest Jaccard
\* similarity among the rows that score at least 0.50 and have a translation, the
\* earliest of them in load order when several score the same; None when no row
\* with a translation reaches 0.50.
C10_FuzzyBestFirst ==
    fn_out.fn = "_fuzzy_match" =>
        IF FuzzyRows = {} THEN fn_out.value = None
        ELSE LET best == {i \in FuzzyRows : \A j \in FuzzyRows : ScoresAtLeast(i, j)}
             IN  fn_out.value = TranslationOf(First(best))

\* The fuzzy tier returned the translation of the first of two rows that both score
\* exactly 0.50 and have different translations
C10_Witness ==
    /\ fn_out.fn = "_fuzzy_match"
    /\ FuzzyRows = {1, 2}
    /\ Jaccard(1) = <<1, 2>> /\ Jaccard(2) = <<1, 2>>
    /\ TranslationOf(1) # TranslationOf(2)
    /\ fn_out.value = TranslationOf(1)

-----------------------------------------------------------------------------
(* Properties of the fallback dictionary (SpecFallback) *)

\* Both words were looked up
BothLookedUp == fn_out.fn = "get_fallback_translation" /\ fn_out.pass = 2

\* The key the claim gives the dictionary: the word case-folded, trimmed, its
\* internal whitespace collapsed
CollapsedKey(w) == Join(<<" ">>, Split(Lower(Strip(w))))

\* The entry of the dictionary of language l under key k, None when there is none
EntryUnder(k, l) ==
    IF k \in DOMAIN FALLBACK_TRANSLATIONS[l] THEN FALLBACK_TRANSLATIONS[l][k] ELSE None

\* C11, as claimed: two words with the same case-folded, trimmed,
\* whitespace-collapsed form get the same result from get_fallback_translation for
\* the same language, the entry stored under that form.
C11_FallbackKeyedByNormalizedWord ==
    (BothLookedUp /\ CollapsedKey(fn_in.word[1]) = CollapsedKey(fn_in.word[2])) =>
        /\ fn_out.value[1] = fn_out.value[2]
        /\ fn_out.value[1] = EntryUnder(CollapsedKey(fn_in.word[1]), fn_in.target_language)

\* C11, amended: two words with the same lower-cased, trimmed form (internal
\* whitespace kept as written) get the same result from get_fallback_translation
\* for the same language, the entry stored under that form, None when there is none.
C11_FallbackKeyedByLowerStripped ==
    (BothLookedUp /\ Strip(Lower(fn_in.word[1])) = Strip(Lower(fn_in.word[2]))) =>
        /\ fn_out.value[1] = fn_out.value[2]
        /\ fn_out.value[1] = EntryUnder(Strip(Lower(fn_in.word[1])), fn_in.target_language)

\* Two different spellings of one entry were looked up and both gave the entry
C11_Witness ==
    /\ BothLookedUp
    /\ fn_in.word[1] # fn_in.word[2]
    /\ Strip(Lower(fn_in.word[1])) = Strip(Lower(fn_in.word[2]))
    /\ fn_out.value[1] # None
    /\ fn_out.value[2] = fn_out.value[1]

-----------------------------------------------------------------------------
(* Properties of the remote path of the endpoint (Spec) *)

\* C12: when translate_to_swahili raises, translate_word answers with a normal
\* result whose method is "failed", whose success is false, whose translation is
\* empty and whose error is the message of the exception, unchanged.
C12_RemoteFailureIsAnswered ==
    call.status = "raised" =>
        /\ pc = "done"
        /\ response.status = 200
        /\ response.method = "failed"
        /\ response.success = FALSE
        /\ response.translation = <<>>
        /\ response.error = call.result
        /\ response.english = call.english_word

\* The remote call ended with the service error that quotes the exception of the
\* client
C12_Witness ==
    /\ call.status = "raised"
    /\ call.result = <<"T", "r", "a", "n", "s", "l", "a", "t", "i", "o", "n", " ", "s", "e", "r", "v", "i", "c", "e", " ", "e", "r", "r", "o", "r", ":", " ", "b", "o", "o", "m">>
    /\ response.error = call.result

\* The languages the remote service is never asked for
LocalOnlyLanguages == {"haya", "sukuma"}

\* C13: a request for haya or sukuma never calls the remote client and never
\* changes the cache, whatever its word; when the dictionary and the fallback both
\* miss, it is answered with method "not_found", success false, an empty
\* translation and an error message that is not empty.
C13_LocalOnlyLanguagesStayLocal ==
    [][(request_count' # request_count /\ req'.target_language \in LocalOnlyLanguages) =>
          /\ pc' = "done"
          /\ call'.status = "none"
          /\ call'.outcomes = <<>>
          /\ translation_cache' = translation_cache
          /\ (req'.csv_translation = None /\ req'.fallback_translation = None) =>
                 /\ response'.status = 200
                 /\ response'.method = "not_found"
                 /\ response'.success = FALSE
                 /\ response'.translation = <<>>
                 /\ response'.error \notin {None, <<>>}]_vars

\* A haya or sukuma request that the dictionary and the fallback both missed was
\* answered while the cache held a translation from an earlier request
C13_Witness ==
    /\ pc = "done"
    /\ req.target_language \in LocalOnlyLanguages
    /\ req.csv_translation = None
    /\ req.fallback_translation = None
    /\ response.method = "not_found"
    /\ translation_cache # <<>>

\* The message of the exception an attempt that failed ends in: the one the client
\* raised, or the one the try body raises for a result without text
FailureMessage(o) ==
    IF o.kind = "raise" THEN o.payload ELSE <<"E", "m", "p", "t", "y", " ", "t", "r", "a", "n", "s", "l", "a", "t", "i", "o", "n", " ", "r", "e", "s", "u", "l", "t">>

Failed(o) == ~HasText(o)

\* The three classes of failure, in the order the except clause tests them
TransientFailure(o) == Failed(o) /\ IsNetworkError(Lower(FailureMessage(o)))
RateLimitedFailure(o) ==
    Failed(o) /\ ~TransientFailure(o) /\ IsRateLimit(Lower(FailureMessage(o)))
OtherFailure(o) == Failed(o) /\ ~TransientFailure(o) /\ ~RateLimitedFailure(o)

\* The sleeps of the call up to the start of its k-th attempt: one retry delay
\* before each attempt but the first, one cooldown after each rate-limited attempt
SleepsBefore(k) ==
    (k - 1) + Cardinality({j \in 1..(k - 1) : RateLimitedFailure(call.outcomes[j])})

\* C14: an attempt that fails with neither a transient-network nor a rate-limited
\* failure (a result without text included) is the last attempt of its call: the
\* call raises the service error quoting that failure, and has slept only before
\* that attempt.
C14_OtherFailureEndsCall ==
    \A i \in 1..Len(call.outcomes) :
        OtherFailure(call.outcomes[i]) =>
            /\ i = Len(call.outcomes)
            /\ call.status = "raised"
            /\ call.result = <<"T", "r", "a", "n", "s", "l", "a", "t", "i", "o", "n", " ", "s", "e", "r", "v", "i", "c", "e", " ", "e", "r", "r", "o", "r", ":", " ">>
                                 \o FailureMessage(call.outcomes[i])
            /\ Len(call.sleeps) = SleepsBefore(i)
            /\ pc = "done"

\* A call whose second attempt returned a result without text, after a first
\* attempt that was rate limited
C14_Witness ==
    /\ Len(call.outcomes) = 2
    /\ RateLimitedFailure(call.outcomes[1])
    /\ call.outcomes[2] = Returned(<<>>)
    /\ call.status = "raised"

\* The cooldown sleeps among the sleeps of the call
CooldownSleeps == {k \in 1..Len(call.sleeps) : call.sleeps[k] = RateLimitSleep}

\* C15: an attempt that fails rate-limited (its message holds "rate limit" or
\* "429" and is not taken for a transient-network failure first) and is not the
\* last is followed by the cooldown sleep and leaves the call going on to another
\* attempt; on the last attempt the call raises the rate-limit error and sleeps no
\* more; a call rate-limited on every attempt ends after exactly MAX_RETRIES
\* attempts and MAX_RETRIES - 1 cooldown sleeps with the rate-limit error.
C15_RateLimitCooldown ==
    /\ \A i \in 1..Len(call.outcomes) :
           RateLimitedFailure(call.outcomes[i]) =>
               IF i < GOOGLE_TRANSLATE_MAX_RETRIES
               THEN /\ SleepsBefore(i) + 1 \in CooldownSleeps
                    /\ i = Len(call.outcomes) =>
                           /\ call.status = "running"
                           /\ pc = "attempt"
                           /\ call.attempt = i
                           /\ Len(call.sleeps) = SleepsBefore(i) + 1
                    /\ i < Len(call.outcomes) =>
                           call.sleeps[SleepsBefore(i) + 2] = GOOGLE_TRANSLATE_RETRY_DELAY
               ELSE /\ i = Len(call.outcomes)
                    /\ call.status = "raised"
                    /\ call.result = MESSAGES.rate_limit
                    /\ Len(call.sleeps) = SleepsBefore(i)
    /\ ( /\ call.status \in {"returned", "raised"}
         /\ call.outcomes # <<>>
         /\ \A i \in 1..Len(call.outcomes) : RateLimitedFailure(call.outcomes[i]) ) =>
           /\ Len(call.outcomes) = GOOGLE_TRANSLATE_MAX_RETRIES
           /\ Cardinality(CooldownSleeps) = GOOGLE_TRANSLATE_MAX_RETRIES - 1
           /\ call.status = "raised"
           /\ call.result = MESSAGES.rate_limit

\* A call that was rate limited on every one of its attempts has ended
C15_Witness ==
    /\ call.status = "raised"
    /\ Len(call.outcomes) = GOOGLE_TRANSLATE_MAX_RETRIES
    /\ \A i \in 1..Len(call.outcomes) : RateLimitedFailure(call.outcomes[i])
    /\ Cardinality(CooldownSleeps) = GOOGLE_TRANSLATE_MAX_RETRIES - 1

-----------------------------------------------------------------------------
(* Properties of the cache in front of a fixed remote service (SpecFixed) *)

\* C16: with a remote service that is a fixed function of the text it receives,
\* what a call of translate_to_swahili returns for a word is what the service
\* computes for that word, whichever request filled the cache, and every value in
\* the cache is what the service computes for the word of the call that reads it.
C16_CacheValueIndependentOfHistory ==
    call.status = "returned" =>
        /\ call.result = Strip(FixedService(call.english_word).payload)
        /\ translation_cache[call.cache_key] = Strip(FixedService(call.english_word).payload)
        /\ response.translation = Strip(FixedService(call.english_word).payload)

-----------------------------------------------------------------------------
(* Termination and the error of a failing call (Spec) *)

\* The attempts a call may still make
AttemptsLeft == GOOGLE_TRANSLATE_MAX_RETRIES - Len(call.outcomes)

\* C17: a call of translate_to_swahili makes at most MAX_RETRIES remote attempts,
\* whatever each attempt ends in: every step of a running call is one more
\* attempt, after which the call has returned or raised or has fewer attempts
\* left, and the MAX_RETRIES-th attempt ends it.  A call is running only for a key
\* the cache does not hold: a cache hit returns with no attempt and no sleep.
C17_TerminatesWithinMaxRetries ==
    /\ [](/\ AttemptsLeft >= 0
          /\ call.status = "running" =>
                 /\ pc = "attempt"
                 /\ call.attempt = Len(call.outcomes)
                 /\ AttemptsLeft > 0
                 /\ ~(call.cache_key \in DOMAIN translation_cache)
          /\ pc = "attempt" => call.status = "running"
          /\ call.cache_hit =>
                 /\ call.status = "returned"
                 /\ call.outcomes = <<>>
                 /\ call.sleeps = <<>>)
    /\ [][pc = "attempt" =>
             /\ Len(call'.outcomes) = Len(call.outcomes) + 1
             /\ \/ call'.status \in {"returned", "raised"} /\ pc' = "done"
                \/ /\ call'.status = "running"
                   /\ GOOGLE_TRANSLATE_MAX_RETRIES - Len(call'.outcomes) > 0]_vars

\* A call used all its attempts: two that failed and were retried, one of each
\* kind, and a third that returned text
C17_Witness ==
    /\ call.status = "returned"
    /\ Len(call.outcomes) = GOOGLE_TRANSLATE_MAX_RETRIES
    /\ \E i, j \in 1..2 : /\ TransientFailure(call.outcomes[i])
                          /\ RateLimitedFailure(call.outcomes[j])

\* The last attempt of the call
LastOutcome == call.outcomes[Len(call.outcomes)]

\* C18: the error a call of translate_to_swahili raises follows from its last
\* attempt alone: the network error when that attempt failed with a
\* transient-network keyword in its message (with or without a rate-limit keyword
\* beside it), the rate-limit error when it failed with a rate-limit keyword only,
\* the service error quoting the failure otherwise; the "translation failed after
\* multiple attempts" error of the end of the loop is never raised.
C18_ErrorFollowsLastAttempt ==
    call.status = "raised" =>
        /\ call.outcomes # <<>>
        /\ Failed(LastOutcome)
        /\ LET error_msg == Lower(FailureMessage(LastOutcome))
           IN  call.result =
                   IF IsNetworkError(error_msg) THEN MESSAGES.network_error
                   ELSE IF IsRateLimit(error_msg) THEN MESSAGES.rate_limit
                   ELSE <<"T", "r", "a", "n", "s", "l", "a", "t", "i", "o", "n", " ", "s", "e", "r", "v", "i", "c", "e", " ", "e", "r", "r", "o", "r", ":", " ">> \o FailureMessage(LastOutcome)
        /\ call.result # MESSAGES.translation_failed

\* A call ended on a last attempt whose message holds a network keyword and a
\* rate-limit keyword, after attempts that were rate limited only
C18_Witness ==
    /\ call.status = "raised"
    /\ Len(call.outcomes) = GOOGLE_TRANSLATE_MAX_RETRIES
    /\ RateLimitedFailure(call.outcomes[1])
    /\ IsNetworkError(Lower(FailureMessage(LastOutcome)))
    /\ IsRateLimit(Lower(FailureMessage(LastOutcome)))
    /\ call.result = MESSAGES.network_error

-----------------------------------------------------------------------------
(* The statistics of the endpoint (Spec) *)

\* No request is being handled
NoRequestInFlight == pc # "attempt"

\* Shorthands for the counters
Successful == translation_stats.successful_translations
FailedCount == translation_stats.failed_translations
Methods == translation_stats.methods_used

\* C19: between requests total_requests = successful_translations +
\* failed_translations and successful_translations = csv_lookup +
\* fallback_dictionary + google_translate; a request, from its arrival to its
\* response, adds one to exactly one of successful_translations and
\* failed_translations, once, on every path.
C19_StatsAddUp ==
    /\ [](/\ translation_stats.total_requests = request_count
          /\ NoRequestInFlight =>
                 /\ translation_stats.total_requests = Successful + FailedCount
                 /\ Successful = Methods.csv_lookup + Methods.fallback_dictionary
                                     + Methods.google_translate
          /\ ~NoRequestInFlight =>
                 translation_stats.total_requests = Successful + FailedCount + 1)
    /\ [][LET ds == translation_stats'.successful_translations - Successful
              df == translation_stats'.failed_translations - FailedCount
          IN  /\ ds \in {0, 1}
              /\ df \in {0, 1}
              /\ (pc' = "done") => ds + df = 1
              /\ (pc' = "attempt") => ds + df = 0
              /\ (pc' = "done" /\ response'.status = 200) =>
                     (ds = 1 <=> response'.success)
              /\ (pc' = "done" /\ response'.status # 200) => df = 1]_vars

\* Requests of the two kinds were counted: one answered by the remote service and
\* one rejected by the validation
C19_Witness ==
    /\ pc = "done"
    /\ request_count = 2
    /\ Methods.google_translate = 1
    /\ Successful = 1
    /\ FailedCount = 1
    /\ response.status = 400
====
